---- MODULE Spec2Model ----
(***************************************************************************)
(* A model of PyUMLS_Similarity (src/src/PyUMLS_Similarity.py): the        *)
(* wrapper that writes concept pairs to a temporary file, runs the UMLS    *)
(* perl scripts as child processes, parses their text output into tables   *)
(* and merges the tables of concurrently dispatched operations.            *)
(*                                                                         *)
(* Text is modelled as a sequence of chunks: "C" and the digits are        *)
(* single-character chunks, so that the two identifier tests of the code   *)
(* (a prefix regex and startswith/isdigit) are computed and not assumed;   *)
(* words and fixed delimiters are one chunk each.                          *)
(***************************************************************************)
EXTENDS Integers, Sequences, FiniteSets, TLC

VARIABLES
    mysql_info,   \* self.mysql_info: connection key -> value, over the keys present
    disk,         \* the files that exist (os.path.isfile)
    file,         \* content of the temporary pair file: a sequence of lines
    inv,          \* the running calls of the three operations, by id <<task, measure>>
    tasks,        \* run_concurrently's argument: the list of tasks
    task,         \* per task: the state of its future (run_task's outcome)
    sim,          \* per similarity task: the frame of similarity()
    rc,           \* the frame of run_concurrently
    results,      \* run_concurrently's dict `results`
    log,          \* the diagnostics printed so far
    env           \* what the operating system may do: whether a launch may fail
                  \* (launches), the exit statuses of a child (statuses)

vars == <<mysql_info, disk, file, inv, tasks, task, sim, rc, results, log, env>>

(***************************************************************************)
(* Bounds of the model.                                                    *)
(***************************************************************************)
MaxPairs == 3        \* longest pair list a caller passes
MaxMeasures == 2     \* longest measure list a caller passes
MaxTasks == 3        \* most tasks in one batch
MaxBadKeys == 2      \* most connection keys absent or empty at once
MaxMergePairs == 2   \* longest pair list behind a merged table
MaxCombined == 2     \* most per-measure results combined at once
MaxLivePairs == 1    \* longest pair list of a batch under fair scheduling

(***************************************************************************)
(* Python values.  str: v is the text; none: None; int and float: v is the *)
(* decimal text of the number; seq: a tuple or a list, v its elements.     *)
(***************************************************************************)
PyStr(s) == [t |-> "str", v |-> s]
PyNone == [t |-> "none", v |-> <<>>]
PyInt(s) == [t |-> "int", v |-> s]
PyFloat(s) == [t |-> "float", v |-> s]
PySeq(xs) == [t |-> "seq", v |-> xs]

Digits == {"0", "1", "2", "3"}

\* the concepts of the modelled ontology: identifier and preferred term
C1 == <<"C", "1">>
C2 == <<"C", "2">>
Heart == <<"heart">>
Lung == <<"lung">>
\* a free-text term that begins like an identifier ("C3 deficiency")
C3def == <<"C", "3", " deficiency">>
C3 == <<"C", "3">>

\* @staticmethod is_cui: re.match(r"C\d+", input_str), a match of a PREFIX
is_cui(input_str) ==
    /\ Len(input_str) >= 2
    /\ input_str[1] = "C"
    /\ input_str[2] \in Digits

\* the group (?P<cui>C\d+) between two fixed delimiters: the whole field
MatchesCuiGroup(s) ==
    /\ Len(s) >= 2
    /\ s[1] = "C"
    /\ \A i \in 2..Len(s) : s[i] \in Digits

\* detect_cui_or_term's helper is_cui(value)
detect_is_cui(value) ==
    /\ value.t = "str"
    /\ Len(value.v) >= 2
    /\ value.v[1] = "C"
    /\ \A i \in 2..Len(value.v) : value.v[i] \in Digits

\* detect_cui_or_term(cui_pairs): only the first pair is looked at
detect_cui_or_term(cui_pairs) ==
    LET first == cui_pairs.v[1]
    IN  detect_is_cui(first.v[1]) /\ detect_is_cui(first.v[2])

(***************************************************************************)
(* The pair file: one line per pair, f"{cui1}<>{cui2}\n".                  *)
(***************************************************************************)
Sep == "<>"

RECURSIVE JoinText(_, _)
\* sep.join(parts) for texts: the parts' chunks with sep between two parts
JoinText(parts, sep) ==
    IF parts = <<>> THEN <<>>
    ELSE IF Len(parts) = 1 THEN parts[1]
    ELSE parts[1] \o sep \o JoinText(Tail(parts), sep)

\* the text an f-string gives for a value: a str as it is, a tuple as its repr
Format(value) ==
    IF value.t = "str" THEN value.v
    ELSE IF value.t = "seq"
    THEN <<"(">> \o JoinText([i \in 1..Len(value.v) |->
                            <<"'">> \o value.v[i].v \o <<"'">>], <<", ">>) \o <<")">>
    ELSE <<"None">>

\* `cui1, cui2 = element` succeeds on a tuple or list of exactly two
Unpacks(element) == element.t = "seq" /\ Len(element.v) = 2

PairLine(element) == Format(element.v[1]) \o <<Sep>> \o Format(element.v[2])

\* the elements a `for cui1, cui2 in cui_pairs` loop gets through before it
\* raises (all of them when none fails to unpack)
Unpacked(cui_pairs) ==
    LET bad == {i \in 1..Len(cui_pairs.v) : ~Unpacks(cui_pairs.v[i])}
    IN  IF bad = {} THEN Len(cui_pairs.v)
        ELSE (CHOOSE i \in bad : \A j \in bad : i <= j) - 1

\* the lines the write loop has put in the file when the with-block is left
WrittenLines(cui_pairs) ==
    [i \in 1..Unpacked(cui_pairs) |-> PairLine(cui_pairs.v[i])]

RECURSIVE Split(_)
\* line.split('<>'): the texts between the separators
Split(line) ==
    LET at == {i \in 1..Len(line) : line[i] = Sep}
    IN  IF at = {} THEN <<line>>
        ELSE LET k == CHOOSE i \in at : \A j \in at : i <= j
             IN  <<SubSeq(line, 1, k - 1)>> \o Split(SubSeq(line, k + 1, Len(line)))

(***************************************************************************)
(* Exceptions.                                                             *)
(***************************************************************************)
NoError == [type |-> "", what |-> ""]
Raise(type, what) == [type |-> type, what |-> what]

\* the except clauses of the three operations: every Exception raised inside
\* the try block is re-raised as RuntimeError
Wrapped(e) == Raise("RuntimeError", e.type)

(***************************************************************************)
(* Validation before the launch.                                           *)
(***************************************************************************)
RequiredKeys == <<"database", "username", "password", "hostname", "socket">>

PerlBin == "perl.exe"
TempFile == "umls-similarity-temp.txt"
ScriptOf(op) ==
    IF op = "similarity" THEN "umls-similarity.pl"
    ELSE IF op = "shortest_path" THEN "findShortestPath.pl"
    ELSE "findLeastCommonSubsumer.pl"

\* mutant of KeyMissing: the test for an empty value left out
KeyMissing_AbsentOnly(info, key) == key \notin DOMAIN info

\* `key not in self.mysql_info or not self.mysql_info[key]`
KeyMissing(info, key) == key \notin DOMAIN info \/ info[key] = ""

\* the loop over required_keys: the first key that fails, "" when none does
FirstMissingKey(info) ==
    LET bad == {i \in 1..Len(RequiredKeys) : KeyMissing(info, RequiredKeys[i])}
    IN  IF bad = {} THEN ""
        ELSE RequiredKeys[CHOOSE i \in bad : \A j \in bad : i <= j]

\* similarity_from_file and find_least_common_subsumer_from_file look for the
\* input file first; find_shortest_path_from_file takes no file
ChecksInputFile(op) == op \in {"similarity", "lcs"}

\* mutant of PrepareError: the interpreter is not looked for before the launch
PrepareError_NoPerlCheck(op, info, dsk) ==
    IF ChecksInputFile(op) /\ TempFile \notin dsk
    THEN Raise("FileNotFoundError", TempFile)
    ELSE IF FirstMissingKey(info) # ""
    THEN Raise("ValueError", FirstMissingKey(info))
    ELSE IF ScriptOf(op) \notin dsk
    THEN Raise("FileNotFoundError", ScriptOf(op))
    ELSE NoError

\* what the operation raises before it builds the command line, NoError when
\* every check passes
PrepareError(op, info, dsk) ==
    IF ChecksInputFile(op) /\ TempFile \notin dsk
    THEN Raise("FileNotFoundError", TempFile)
    ELSE IF FirstMissingKey(info) # ""
    THEN Raise("ValueError", FirstMissingKey(info))
    ELSE IF ScriptOf(op) \notin dsk
    THEN Raise("FileNotFoundError", ScriptOf(op))
    ELSE IF PerlBin \notin dsk
    THEN Raise("FileNotFoundError", PerlBin)
    ELSE NoError

(***************************************************************************)
(* The external toolkit.  Its output is text in the formats the regular    *)
(* expressions of the parsers expect; a line is modelled by its kind and   *)
(* the texts of its fields.                                                *)
(*   sim:    score<>a(ap)<>b(bp)                                           *)
(*   path:   The shortest path (length: N) between term1 (cui1) and term2  *)
(*           (cui2): => id (term) => id (term) ...                         *)
(*   nopath: There is not a path between a and b given the current view of *)
(*           the UMLS.                                                     *)
(*   lcs:    The least common subsumer between term1 (cui1) and term2      *)
(*           (cui2) is lcs_term (lcs_cui) with a min and max depth of ...  *)
(*   noise:  any other line                                                *)
(***************************************************************************)
Ontology ==
    { [cui |-> C1, term |-> Heart],
      [cui |-> C2, term |-> Lung],
      [cui |-> C3, term |-> C3def] }

Known(ref) == \E c \in Ontology : ref = c.cui \/ ref = c.term
ConceptOf(ref) == CHOOSE c \in Ontology : ref = c.cui \/ ref = c.term

Noise == [kind |-> "noise"]
Score == <<"0.8000">>

\* umls-similarity.pl on one line of the pair file: identifiers are echoed as
\* ID(Term), terms as Term(ID)
SimLine(line) ==
    LET refs == Split(line)
    IN  IF Len(refs) = 2 /\ Known(refs[1]) /\ Known(refs[2])
        THEN LET c1 == ConceptOf(refs[1])
                 c2 == ConceptOf(refs[2])
                 byId == refs[1] = c1.cui
             IN  [kind |-> "sim", score |-> Score,
                  a  |-> IF byId THEN c1.cui ELSE c1.term,
                  ap |-> IF byId THEN c1.term ELSE c1.cui,
                  b  |-> IF byId THEN c2.cui ELSE c2.term,
                  bp |-> IF byId THEN c2.term ELSE c2.cui]
        ELSE Noise

\* findLeastCommonSubsumer.pl on one line of the pair file
LcsLine(line) ==
    LET refs == Split(line)
    IN  IF Len(refs) = 2 /\ Known(refs[1]) /\ Known(refs[2])
        THEN LET c1 == ConceptOf(refs[1])
                 c2 == ConceptOf(refs[2])
             IN  [kind |-> "lcs", term1 |-> c1.term, cui1 |-> c1.cui,
                  term2 |-> c2.term, cui2 |-> c2.cui,
                  lcs_term |-> c1.term, lcs_cui |-> c1.cui,
                  min_depth |-> <<"1">>, max_depth |-> <<"2">>]
        ELSE Noise

\* the outputs a file-based script may print for the file content it read:
\* a diagnostic line and then one result line per pair line it recognises,
\* or nothing the parser recognises
FileToolOutputs(op, fed) ==
    LET lines == [i \in 1..Len(fed) |-> IF op = "similarity" THEN SimLine(fed[i])
                                                              ELSE LcsLine(fed[i])]
    IN  { <<Noise>> \o SelectSeq(lines, LAMBDA l : l # Noise), <<Noise>> }

\* findShortestPath.pl on the two trailing arguments: the path line, the
\* no-path line (naming the concepts as given or by identifier), or neither
PathToolOutputs(a, b) ==
    IF Known(a) /\ Known(b)
    THEN LET c1 == ConceptOf(a)
             c2 == ConceptOf(b)
         IN  { << [kind |-> "path",
                   length |-> IF c1 = c2 THEN <<"0">> ELSE <<"1">>,
                   term1 |-> c1.term, cui1 |-> c1.cui,
                   term2 |-> c2.term, cui2 |-> c2.cui,
                   nodes |-> IF c1 = c2 THEN << <<c1.cui, c1.term>> >>
                             ELSE << <<c1.cui, c1.term>>, <<c2.cui, c2.term>> >>] >>,
               << [kind |-> "nopath", a |-> a, b |-> b] >>,
               << [kind |-> "nopath", a |-> c1.cui, b |-> c2.cui] >>,
               << Noise >> }
    ELSE { << [kind |-> "nopath", a |-> a, b |-> b] >>, << Noise >> }

(***************************************************************************)
(* Tables (pandas.DataFrame): the set of column names and the rows, each a *)
(* function from the columns to cells.  pd.DataFrame([]) has no columns.   *)
(***************************************************************************)
EmptyTable == [cols |-> {}, rows |-> <<>>]

\* pd.DataFrame(records): the columns are the keys of the records
DataFrame(records) ==
    IF records = <<>> THEN EmptyTable
    ELSE [cols |-> DOMAIN records[1], rows |-> records]

RECURSIVE Flatten(_)
Flatten(seqs) ==
    IF seqs = <<>> THEN <<>> ELSE seqs[1] \o Flatten(Tail(seqs))

(***************************************************************************)
(* The output parsers.                                                     *)
(***************************************************************************)
IdentityCols == {"Term_1", "CUI_1", "Term_2", "CUI_2"}

\* float(match.group('similarity')) of the scores the modelled tool prints
FloatOf(text) == IF text = <<"0.8000">> THEN PyFloat(<<"0.8">>) ELSE PyFloat(text)

\* mutant of SimilarityRecords: the identifier pattern's groups read in the
\* term pattern's order
SimilarityRecords_GroupsSwapped(line, input_is_cui, measure) ==
    IF line.kind # "sim" THEN <<>>
    ELSE << [c \in IdentityCols \cup {measure} |->
               IF c = measure THEN FloatOf(line.score)
               ELSE IF c = "Term_1" THEN PyStr(line.a)
               ELSE IF c = "CUI_1" THEN PyStr(line.ap)
               ELSE IF c = "Term_2" THEN PyStr(line.b)
               ELSE PyStr(line.bp)] >>

\* similarity_from_file, lines 259-289: the record of one output line
SimilarityRecords(line, input_is_cui, measure) ==
    IF line.kind # "sim" THEN <<>>
    ELSE IF input_is_cui
    THEN IF MatchesCuiGroup(line.a) /\ line.ap # <<>>
            /\ MatchesCuiGroup(line.b) /\ line.bp # <<>>
         THEN << [c \in IdentityCols \cup {measure} |->
                    IF c = measure THEN FloatOf(line.score)
                    ELSE IF c = "Term_1" THEN PyStr(line.ap)
                    ELSE IF c = "CUI_1" THEN PyStr(line.a)
                    ELSE IF c = "Term_2" THEN PyStr(line.bp)
                    ELSE PyStr(line.b)] >>
         ELSE <<>>
    ELSE IF line.a # <<>> /\ MatchesCuiGroup(line.ap)
            /\ line.b # <<>> /\ MatchesCuiGroup(line.bp)
         THEN << [c \in IdentityCols \cup {measure} |->
                    IF c = measure THEN FloatOf(line.score)
                    ELSE IF c = "Term_1" THEN PyStr(line.a)
                    ELSE IF c = "CUI_1" THEN PyStr(line.ap)
                    ELSE IF c = "Term_2" THEN PyStr(line.b)
                    ELSE PyStr(line.bp)] >>
         ELSE <<>>

\* re.findall(r"(C\d+) \((.+?)\)", path) and the " => ".join of the nodes
PathString(nodes) ==
    LET kept == SelectSeq(nodes, LAMBDA n : MatchesCuiGroup(n[1]) /\ n[2] # <<>>)
    IN  JoinText([i \in 1..Len(kept) |-> kept[i][1] \o <<" (">> \o kept[i][2] \o <<")">>],
             <<" => ">>)

NoPathFound == PyStr(<<"No path found">>)

\* find_shortest_path_from_file, lines 412-472: the record of one match
ShortestPathRecords(line, pair1, pair2, input_is_cui) ==
    IF line.kind = "path"
    THEN IF line.term1 # <<>> /\ MatchesCuiGroup(line.cui1)
            /\ line.term2 # <<>> /\ MatchesCuiGroup(line.cui2)
         THEN << [Term_1 |-> PyStr(line.term1), CUI_1 |-> PyStr(line.cui1),
                  Term_2 |-> PyStr(line.term2), CUI_2 |-> PyStr(line.cui2),
                  Length |-> PyStr(line.length),
                  Path |-> PyStr(PathString(line.nodes))] >>
         ELSE <<>>
    ELSE IF line.kind = "nopath"
    THEN IF input_is_cui
         THEN IF MatchesCuiGroup(line.a) /\ MatchesCuiGroup(line.b)
              THEN << [Term_1 |-> PyNone, CUI_1 |-> PyStr(line.a),
                       Term_2 |-> PyNone, CUI_2 |-> PyStr(line.b),
                       Length |-> IF line.a # line.b THEN NoPathFound
                                  ELSE PyInt(<<"0">>),
                       Path |-> IF line.a # line.b THEN NoPathFound
                                ELSE PyStr(line.a)] >>
              ELSE <<>>
         ELSE << [Term_1 |-> PyStr(pair1), CUI_1 |-> PyNone,
                  Term_2 |-> PyStr(pair2), CUI_2 |-> PyNone,
                  Length |-> NoPathFound, Path |-> NoPathFound] >>
    ELSE <<>>

\* find_least_common_subsumer_from_file, lines 584-602
LcsRecords(line) ==
    IF line.kind = "lcs" /\ line.term1 # <<>> /\ MatchesCuiGroup(line.cui1)
       /\ line.term2 # <<>> /\ MatchesCuiGroup(line.cui2)
       /\ line.lcs_term # <<>> /\ MatchesCuiGroup(line.lcs_cui)
    THEN << [Term_1 |-> PyStr(line.term1), CUI_1 |-> PyStr(line.cui1),
             Term_2 |-> PyStr(line.term2), CUI_2 |-> PyStr(line.cui2),
             LCS_Term |-> PyStr(line.lcs_term), LCS_CUI |-> PyStr(line.lcs_cui),
             MIN_Depth |-> PyStr(line.min_depth),
             MAX_Depth |-> PyStr(line.max_depth)] >>
    ELSE <<>>

(***************************************************************************)
(* Joins.  pd.merge(left, right, on=keys, how='outer') raises KeyError     *)
(* when a key is no column of one side; equal keys pair every left row     *)
(* with every right row (None keys match None keys), an unmatched row      *)
(* keeps None in the other side's columns.  Of two columns of one name the *)
(* left one is kept: merge_results drops the right one's '_drop' copy, and *)
(* combine_similarity_results never has one.  pandas orders the rows of an *)
(* outer join by key; the model keeps the order of the join, and rows are  *)
(* compared as bags.                                                       *)
(***************************************************************************)
KeyEq(l, r, keys) == \A k \in keys : l[k] = r[k]

CanMerge(left, right, keys) == keys \subseteq left.cols /\ keys \subseteq right.cols

OuterMerge(left, right, keys) ==
    LET extra == right.cols \ left.cols
        cols == left.cols \cup extra
        Both(l, r) == [c \in cols |-> IF c \in left.cols THEN l[c] ELSE r[c]]
        LeftOnly(l) == [c \in cols |-> IF c \in left.cols THEN l[c] ELSE PyNone]
        RightOnly(r) == [c \in cols |-> IF c \in right.cols THEN r[c] ELSE PyNone]
        MatchesOf(l) == SelectSeq(right.rows, LAMBDA r : KeyEq(l, r, keys))
        Unmatched == SelectSeq(right.rows,
                        LAMBDA r : \A i \in 1..Len(left.rows) :
                                      ~KeyEq(left.rows[i], r, keys))
    IN  [cols |-> cols,
         rows |-> Flatten([i \in 1..Len(left.rows) |->
                             LET l == left.rows[i]
                                 ms == MatchesOf(l)
                             IN  IF ms = <<>> THEN <<LeftOnly(l)>>
                                 ELSE [j \in 1..Len(ms) |-> Both(l, ms[j])]])
                  \o [j \in 1..Len(Unmatched) |-> RightOnly(Unmatched[j])]]

\* df.drop(columns=[...]): the table without these columns
DropCols(df, gone) ==
    [cols |-> df.cols \ gone,
     rows |-> [i \in 1..Len(df.rows) |-> [c \in df.cols \ gone |-> df.rows[i][c]]]]

\* a call's outcome: the exception it raises (NoError when it returns) and
\* the table it returns
Returns(table) == [err |-> NoError, table |-> table]
Raises(e) == [err |-> e, table |-> EmptyTable]

(***************************************************************************)
(* merge_results(results, use_cuis)                                        *)
(***************************************************************************)
MergeOrder == <<"similarity", "shortest_path", "lcs">>

MergeOn(use_cuis) == IF use_cuis THEN {"CUI_1", "CUI_2"} ELSE {"Term_1", "Term_2"}
NonMergeCols(use_cuis) == IF use_cuis THEN {"Term_1", "Term_2"} ELSE {"CUI_1", "CUI_2"}

RECURSIVE MergeAll(_, _, _)
\* the loop `for df in dataframes[1:]`
MergeAll(final_df, rest, use_cuis) ==
    IF rest = <<>> THEN Returns(final_df)
    ELSE LET df == DropCols(rest[1], NonMergeCols(use_cuis))
         IN  IF ~CanMerge(final_df, df, MergeOn(use_cuis))
             THEN Raises(Raise("KeyError", "merge_results"))
             ELSE MergeAll(OuterMerge(final_df, df, MergeOn(use_cuis)),
                           Tail(rest), use_cuis)

merge_results(by_name, use_cuis) ==
    LET present == SelectSeq(MergeOrder, LAMBDA k : k \in DOMAIN by_name)
        dataframes == [i \in 1..Len(present) |-> by_name[present[i]]]
    IN  IF dataframes = <<>> THEN Returns(EmptyTable)
        ELSE MergeAll(dataframes[1], Tail(dataframes), use_cuis)

(***************************************************************************)
(* combine_similarity_results(all_results, cui_pairs)                      *)
(***************************************************************************)
MeasureColumn(measure) == "Similarity (" \o measure \o ")"

\* measure_df.rename(columns={measure: measure_column})
Rename(df, old, new) ==
    IF old \notin df.cols THEN df
    ELSE LET cols == (df.cols \ {old}) \cup {new}
         IN  [cols |-> cols,
              rows |-> [i \in 1..Len(df.rows) |->
                          [c \in cols |-> IF c = new THEN df.rows[i][old]
                                          ELSE df.rows[i][c]]]]

RECURSIVE CombineFrom(_, _)
\* the loop over all_results; the class sets no attribute `verbose`, so
\* reading self.verbose in the skip branch raises AttributeError
CombineFrom(combined_df, all_results) ==
    IF all_results = <<>> THEN Returns(combined_df)
    ELSE LET measure == all_results[1][1]
             measure_df == Rename(all_results[1][2], measure, MeasureColumn(measure))
         IN  IF MeasureColumn(measure) \in combined_df.cols
             THEN Raises(Raise("AttributeError", "verbose"))
             ELSE IF combined_df.rows = <<>>
             THEN CombineFrom(measure_df, Tail(all_results))
             ELSE IF ~CanMerge(combined_df, measure_df, IdentityCols)
             THEN Raises(Raise("KeyError", "combine_similarity_results"))
             ELSE CombineFrom(OuterMerge(combined_df, measure_df, IdentityCols),
                              Tail(all_results))

combine_similarity_results(all_results) == CombineFrom(EmptyTable, all_results)

(***************************************************************************)
(* One call of an operation.  A call made through the public method        *)
(* (similarity's calculate_measure_similarity, find_shortest_path,         *)
(* find_least_common_subsumer) starts at "open": it opens the temporary    *)
(* file for writing, writes the pairs, and calls the *_from_file method,   *)
(* which starts at "prepare".                                              *)
(***************************************************************************)
\* forcerun is the caller's option (True when left out), passed the value the
\* *_from_file method has for it, argv the bare flags of the last command line
NewCall(op, arg, measure, pc) ==
    [op |-> op, pc |-> pc, arg |-> arg, measure |-> measure, k |-> 1,
     fed |-> <<>>, first_line |-> <<>>, out |-> <<>>,
     exit |-> 0, rows |-> <<>>, spawned |-> 0, res |-> Returns(EmptyTable),
     forcerun |-> TRUE, passed |-> TRUE, argv |-> {}]

\* the options without a value in umls_sim_params: process_args gets the
\* bare key
BareFlags(op, forcerun) ==
    (IF op = "shortest_path" THEN {"--length"}
     ELSE IF op = "lcs" THEN {"--depth"} ELSE {})
        \cup (IF forcerun THEN {"--forcerun"} ELSE {})

\* the forcerun the public method hands to the *_from_file method:
\* similarity passes its own, find_shortest_path and
\* find_least_common_subsumer pass none, so the default True applies
Forwarded(call) == IF call.op = "similarity" THEN call.forcerun ELSE TRUE

Failed(call, e) == [call EXCEPT !.pc = "failed", !.res = Raises(e)]
Done(call, table) == [call EXCEPT !.pc = "done", !.res = Returns(table)]
Finished(call) == call.pc \in {"done", "failed"}

\* the checks of the *_from_file method up to the command line; an empty
\* pair list ends find_shortest_path_from_file's loop at once
Checked(call, info, dsk) ==
    IF PrepareError(call.op, info, dsk) # NoError
    THEN Failed(call, PrepareError(call.op, info, dsk))
    ELSE IF call.op = "shortest_path" /\ Len(call.arg.v) = 0
    THEN Done(call, EmptyTable)
    ELSE [call EXCEPT !.pc = "spawn"]

\* what building the command line and subprocess.Popen raise for the k-th
\* element of find_shortest_path_from_file's pairs: the loop's unpacking
\* raises outside the try block, a trailing argument that is no str makes
\* Popen raise TypeError inside it
PathArgsError(element) ==
    IF ~Unpacks(element) THEN Raise("ValueError", "unpack")
    ELSE IF element.v[1].t # "str" \/ element.v[2].t # "str"
    THEN Wrapped(Raise("TypeError", "Popen"))
    ELSE NoError

\* subprocess.Popen: the child is started, or the launch fails with OSError
Popen(call, launched) ==
    IF call.pc # "spawn" THEN call
    ELSE IF call.op = "shortest_path" /\ PathArgsError(call.arg.v[call.k]) # NoError
    THEN Failed(call, PathArgsError(call.arg.v[call.k]))
    ELSE IF ~launched
    THEN Failed(call, Wrapped(Raise("OSError", "Popen")))
    ELSE [call EXCEPT !.pc = "run", !.spawned = @ + 1,
                      !.argv = BareFlags(call.op, call.passed)]

\* open(in_file_path, 'w'): the file exists and is empty
Open(id) ==
    /\ inv[id].pc = "open"
    /\ file' = <<>>
    /\ disk' = disk \cup {TempFile}
    /\ inv' = [inv EXCEPT ![id].pc = "write"]
    /\ UNCHANGED <<mysql_info, tasks, task, sim, rc, results, log, env>>

\* the write loop and the end of the with-block: the buffered lines reach the
\* file; an element that does not unpack into two raises ValueError.  The
\* public method then calls the *_from_file method, which runs up to Popen.
Write(id) ==
    /\ inv[id].pc = "write"
    /\ file' = WrittenLines(inv[id].arg)
    /\ \E launched \in env.launches :
         inv' = [inv EXCEPT ![id] =
                   IF Unpacked(inv[id].arg) < Len(inv[id].arg.v)
                   THEN Failed(@, Raise("ValueError", "unpack"))
                   ELSE Popen(Checked([@ EXCEPT !.passed = Forwarded(inv[id])],
                                      mysql_info, disk), launched)]
    /\ UNCHANGED <<mysql_info, disk, tasks, task, sim, rc, results, log, env>>

\* a *_from_file method called by itself, up to Popen
Launch(id) ==
    /\ inv[id].pc = "prepare"
    /\ \E launched \in env.launches :
         inv' = [inv EXCEPT ![id] =
                   Popen(Checked([@ EXCEPT !.passed = inv[id].forcerun], mysql_info, disk),
                         launched)]
    /\ UNCHANGED <<mysql_info, disk, file, tasks, task, sim, rc, results, log, env>>

\* the next turn of find_shortest_path_from_file's loop, up to Popen
NextPair(id) ==
    /\ inv[id].pc = "spawn"
    /\ \E launched \in env.launches :
         inv' = [inv EXCEPT ![id] = Popen(@, launched)]
    /\ UNCHANGED <<mysql_info, disk, file, tasks, task, sim, rc, results, log, env>>

\* mutant of Run: the child never exits
Run_NeverExits(id) ==
    /\ inv[id].pc = "run"
    /\ FALSE
    /\ UNCHANGED vars

\* the child process: a file-based script reads the pair file, the path
\* script its two arguments; it prints its output and exits with a status
\* (a child that exits with an error has printed no result line)
Run(id) ==
    /\ inv[id].pc = "run"
    /\ \E status \in env.statuses :
       \E out \in IF inv[id].op = "shortest_path"
                  THEN PathToolOutputs(inv[id].arg.v[inv[id].k].v[1].v,
                                       inv[id].arg.v[inv[id].k].v[2].v)
                  ELSE FileToolOutputs(inv[id].op, file) :
         /\ status # 0 => out = <<Noise>>
         /\ inv' = [inv EXCEPT ![id] =
                      [@ EXCEPT !.pc = "parse", !.out = out, !.exit = status,
                                !.fed = IF inv[id].op = "shortest_path" THEN <<>>
                                        ELSE file]]
    /\ UNCHANGED <<mysql_info, disk, file, tasks, task, sim, rc, results, log, env>>

\* similarity_from_file, lines 254-257: the first line of the file, read
\* again after the child has ended
FirstLine(content) == IF content = <<>> THEN <<>> ELSE content[1]

SimilarityParse(call, content) ==
    LET parts == Split(FirstLine(content))
    IN  IF Len(parts) # 2
        THEN Failed([call EXCEPT !.first_line = FirstLine(content)],
                    Wrapped(Raise("ValueError", "unpack")))
        ELSE Done([call EXCEPT !.first_line = FirstLine(content)],
                  DataFrame(Flatten([i \in 1..Len(call.out) |->
                      SimilarityRecords(call.out[i],
                                        is_cui(parts[1]) /\ is_cui(parts[2]),
                                        call.measure)])))

LcsParse(call) ==
    Done(call, DataFrame(Flatten([i \in 1..Len(call.out) |-> LcsRecords(call.out[i])])))

\* one turn of find_shortest_path_from_file's loop after communicate()
ShortestPathParse(call) ==
    LET pair1 == call.arg.v[call.k].v[1].v
        pair2 == call.arg.v[call.k].v[2].v
        rows == call.rows \o
                Flatten([i \in 1..Len(call.out) |->
                    ShortestPathRecords(call.out[i], pair1, pair2,
                                        is_cui(pair1) /\ is_cui(pair2))])
    IN  IF call.k < Len(call.arg.v)
        THEN [call EXCEPT !.pc = "spawn", !.k = @ + 1, !.rows = rows]
        ELSE Done([call EXCEPT !.rows = rows], DataFrame(rows))

\* communicate() has returned: the output is parsed.  The exit status of the
\* child is not looked at.
Parse(id) ==
    /\ inv[id].pc = "parse"
    /\ inv' = [inv EXCEPT ![id] =
                 IF @.op = "similarity" THEN SimilarityParse(@, file)
                 ELSE IF @.op = "lcs" THEN LcsParse(@)
                 ELSE ShortestPathParse(@)]
    /\ UNCHANGED <<mysql_info, disk, file, tasks, task, sim, rc, results, log, env>>

(***************************************************************************)
(* run_task, similarity and run_concurrently.                              *)
(***************************************************************************)
Extend(f, g) == [x \in DOMAIN f \cup DOMAIN g |-> IF x \in DOMAIN g THEN g[x] ELSE f[x]]

DefaultMeasures == <<PyStr(<<"lch">>)>>

\* the name of a measure as a column name
NameOf(measure) == measure.v[1]

\* similarity(*arguments): the pairs, and the measures or their default
SimilarityCalls(i, arguments) ==
    LET cui_pairs == arguments.v[1]
        measures == IF Len(arguments.v) >= 2 THEN arguments.v[2].v ELSE DefaultMeasures
    IN  [id \in {<<i, j>> : j \in 1..Len(measures)} |->
            NewCall("similarity", cui_pairs, NameOf(measures[id[2]]), "open")]

\* find_shortest_path(arguments), find_least_common_subsumer(arguments):
\* the whole argument tuple is passed as cui_pairs
WholeTupleCall(i, op, arguments) ==
    [id \in {<<i, 0>>} |-> NewCall(op, arguments, "", "open")]

\* the dispatch of run_task on the function name
RunTaskCalls(i, t) ==
    IF t.function = "similarity" THEN SimilarityCalls(i, t.arguments)
    ELSE IF t.function = "shortest_path"
    THEN WholeTupleCall(i, "shortest_path", t.arguments)
    ELSE IF t.function = "lcs" THEN WholeTupleCall(i, "lcs", t.arguments)
    ELSE <<>>

KnownFunction(name) == name \in {"similarity", "shortest_path", "lcs"}

\* run_concurrently, lines 640-645: the kind of the batch is taken from the
\* first task, and every task is submitted to the pool
Dispatch ==
    /\ rc.pc = "call"
    /\ rc' = [rc EXCEPT !.pc = "collect",
                        !.use_cuis = detect_cui_or_term(tasks[1].arguments.v[1])]
    /\ task' = [i \in DOMAIN tasks |-> [pc |-> "submitted", res |-> Returns(EmptyTable)]]
    /\ UNCHANGED <<mysql_info, disk, file, inv, tasks, sim, results, log, env>>

\* a pool thread enters run_task
RunTask(i) ==
    /\ i \in DOMAIN task
    /\ task[i].pc = "submitted"
    /\ task' = [task EXCEPT ![i] =
                  IF KnownFunction(tasks[i].function) THEN [@ EXCEPT !.pc = "running"]
                  ELSE [pc |-> "finished",
                        res |-> Raises(Raise("ValueError", "Unknown function"))]]
    /\ inv' = Extend(inv, RunTaskCalls(i, tasks[i]))
    /\ sim' = IF tasks[i].function = "similarity"
              THEN Extend(sim, [x \in {i} |-> [pc |-> "collect", all_results |-> <<>>,
                                               collected |-> {}]])
              ELSE sim
    /\ UNCHANGED <<mysql_info, disk, file, tasks, rc, results, log, env>>

MeasureCalls(i) == {id \in DOMAIN inv : id[1] = i /\ id[2] > 0}

\* similarity's as_completed loop takes one finished measure; the loop and
\* the executor's with-block end once every measure is taken
SimCollect(id) ==
    /\ id[1] \in DOMAIN sim
    /\ id \in MeasureCalls(id[1])
    /\ sim[id[1]].pc = "collect"
    /\ id[2] \notin sim[id[1]].collected
    /\ Finished(inv[id])
    /\ sim' = [sim EXCEPT ![id[1]] =
                 [pc |-> IF @.collected \cup {id[2]}
                              = {x[2] : x \in MeasureCalls(id[1])}
                         THEN "combine" ELSE "collect",
                  collected |-> @.collected \cup {id[2]},
                  all_results |->
                      IF inv[id].res.err = NoError
                      THEN Append(@.all_results, <<inv[id].measure, inv[id].res.table>>)
                      ELSE @.all_results]]
    /\ log' = IF inv[id].res.err = NoError THEN log
              ELSE log \cup {[by |-> "similarity", name |-> inv[id].measure,
                              cause |-> inv[id].res.err.type]}
    /\ UNCHANGED <<mysql_info, disk, file, inv, tasks, task, rc, results, env>>

\* return self.combine_similarity_results(all_results, cui_pairs)
SimCombine(i) ==
    /\ i \in DOMAIN sim
    /\ sim[i].pc = "combine"
    /\ sim' = [sim EXCEPT ![i].pc = "done"]
    /\ task' = [task EXCEPT ![i] =
                  [pc |-> "finished",
                   res |-> combine_similarity_results(sim[i].all_results)]]
    /\ UNCHANGED <<mysql_info, disk, file, inv, tasks, rc, results, log, env>>

\* mutant of FutureDone: the future of a running operation counts as done
FutureDone_NotAwaited(i) ==
    \/ task[i].pc = "finished"
    \/ /\ task[i].pc = "running"
       /\ tasks[i].function \in {"shortest_path", "lcs"}

\* the future of task i is done: run_task has returned or raised
FutureDone(i) ==
    \/ task[i].pc = "finished"
    \/ /\ task[i].pc = "running"
       /\ tasks[i].function \in {"shortest_path", "lcs"}
       /\ Finished(inv[<<i, 0>>])

FutureResult(i) ==
    IF task[i].pc = "finished" THEN task[i].res ELSE inv[<<i, 0>>].res

\* run_concurrently's as_completed loop takes one finished task: its table
\* is stored under the function name, or its exception is printed; the loop
\* ends once every future has been taken
Collect(i) ==
    /\ rc.pc = "collect"
    /\ i \in DOMAIN task
    /\ i \notin rc.collected
    /\ FutureDone(i)
    /\ rc' = [rc EXCEPT !.collected = @ \cup {i},
                        !.pc = IF rc.collected \cup {i} = DOMAIN tasks
                               THEN "merge" ELSE "collect"]
    /\ results' = IF FutureResult(i).err = NoError
                  THEN Extend(results,
                              [x \in {tasks[i].function} |-> FutureResult(i).table])
                  ELSE results
    /\ log' = IF FutureResult(i).err = NoError THEN log
              ELSE log \cup {[by |-> "run_concurrently", name |-> tasks[i].function,
                              cause |-> FutureResult(i).err.type]}
    /\ UNCHANGED <<mysql_info, disk, file, inv, tasks, task, sim, env>>

\* final_df = self.merge_results(results, use_cuis=use_cuis); return final_df
Merge ==
    /\ rc.pc = "merge"
    /\ rc' = [rc EXCEPT !.pc = "done", !.final = merge_results(results, rc.use_cuis)]
    /\ UNCHANGED <<mysql_info, disk, file, inv, tasks, task, sim, results, log, env>>

(***************************************************************************)
(* Inputs.                                                                 *)
(***************************************************************************)
Pair(a, b) == PySeq(<<PyStr(a), PyStr(b)>>)

\* pair lists of identifiers and of terms; the second pair of each list has
\* source and destination coincide
CuiPairSeq == <<Pair(C1, C2), Pair(C2, C2), Pair(C2, C1), Pair(C1, C1)>>
TermPairSeq == <<Pair(Heart, Lung), Pair(Lung, Lung), Pair(Lung, Heart), Pair(Heart, Heart)>>

Prefix(seq, n) == [i \in 1..n |-> seq[((i - 1) % Len(seq)) + 1]]

\* a list of terms that begin like an identifier ("C3 deficiency")
LikeCuiPairSeq == <<Pair(C3def, C3def)>>

PairLists ==
    {PySeq(Prefix(CuiPairSeq, n)) : n \in 1..MaxPairs}
        \cup {PySeq(Prefix(TermPairSeq, n)) : n \in 1..MaxPairs}
        \cup {PySeq(LikeCuiPairSeq)}

\* the pair lists of the batches: identifiers at every length, one of terms
BatchPairLists ==
    {PySeq(Prefix(CuiPairSeq, n)) : n \in 1..MaxPairs} \cup {PySeq(Prefix(TermPairSeq, 1))}

MeasureSeq == <<PyStr(<<"lch">>), PyStr(<<"wup">>), PyStr(<<"res">>), PyStr(<<"lin">>)>>

MeasureLists == {PySeq(Prefix(MeasureSeq, n)) : n \in 1..MaxMeasures}

ValidInfo == [k \in {RequiredKeys[i] : i \in 1..Len(RequiredKeys)} |-> "x"]
Installed == {PerlBin, ScriptOf("similarity"), ScriptOf("shortest_path"), ScriptOf("lcs")}

\* the tasks of the documented usage, in their documented order, and an
\* unknown function name; a batch names every function at most once
TaskOf(name, pairs, measures) ==
    [function |-> name,
     arguments |-> IF name = "similarity" THEN PySeq(<<pairs, measures>>)
                   ELSE PySeq(<<pairs>>)]

FunctionNames == <<"similarity", "shortest_path", "lcs", "bogus">>

Batches ==
    {names \in SUBSET {FunctionNames[i] : i \in 1..Len(FunctionNames)} :
        names # {} /\ Cardinality(names) <= MaxTasks}

TaskList(names, pairs, measures) ==
    LET order == SelectSeq(FunctionNames, LAMBDA f : f \in names)
    IN  [i \in 1..Len(order) |-> TaskOf(order[i], pairs, measures)]

NoCalls == [id \in {} |-> 0]

(***************************************************************************)
(* Spec: one call of run_concurrently on an installed, configured toolkit. *)
(***************************************************************************)
Init ==
    /\ mysql_info = ValidInfo
    /\ disk = Installed
    /\ file = <<>>
    /\ inv = NoCalls
    /\ \E names \in Batches, pairs \in BatchPairLists, measures \in MeasureLists :
         /\ "similarity" \notin names => measures = PySeq(Prefix(MeasureSeq, 1))
         /\ tasks = TaskList(names, pairs, measures)
    /\ task = NoCalls
    /\ sim = NoCalls
    /\ rc = [pc |-> "call", use_cuis |-> FALSE, collected |-> {},
             final |-> Returns(EmptyTable)]
    /\ results = NoCalls
    /\ log = {}
    /\ env = [launches |-> {TRUE}, statuses |-> {0}]

Next ==
    \/ Dispatch
    \/ \E i \in DOMAIN tasks : RunTask(i)
    \/ \E id \in DOMAIN inv : Open(id)
    \/ \E id \in DOMAIN inv : Write(id)
    \/ \E id \in DOMAIN inv : Run(id)
    \/ \E id \in DOMAIN inv : Parse(id)
    \/ \E id \in DOMAIN inv : SimCollect(id)
    \/ \E i \in DOMAIN tasks : SimCombine(i)
    \/ \E i \in DOMAIN tasks : Collect(i)
    \/ Merge

Spec == Init /\ [][Next]_vars

(***************************************************************************)
(* SpecOps: one call of one operation by itself, on any configuration and  *)
(* installation: a *_from_file method called directly, or                  *)
(* find_shortest_path / find_least_common_subsumer called with a pair      *)
(* list.  A launch may fail and a child may exit with an error.            *)
(***************************************************************************)
KeySet == {RequiredKeys[i] : i \in 1..Len(RequiredKeys)}

\* the connection mappings: every key set, empty or absent, at most
\* MaxBadKeys of them not set
Configs ==
    UNION { [present -> {"", "x"}] : present \in SUBSET KeySet }

\* the keys a mapping does not set: absent, or present with an empty value
BadKeys(info) == {k \in KeySet : k \notin DOMAIN info \/ info[k] = ""}

Operations == {"similarity", "shortest_path", "lcs"}

TheCall == <<0, 0>>

InitOps ==
    /\ mysql_info \in {info \in Configs : Cardinality(BadKeys(info)) <= MaxBadKeys}
    /\ \E op \in Operations, pairs \in PairLists, public \in BOOLEAN,
          forcerun \in BOOLEAN :
         /\ public => op # "similarity"
         /\ (public /\ op = "lcs") => forcerun
         /\ disk \in {d \in SUBSET {PerlBin, ScriptOf(op), TempFile} :
                         public => TempFile \notin d}
         /\ file = IF TempFile \in disk THEN WrittenLines(pairs) ELSE <<>>
         /\ inv = [id \in {TheCall} |->
                     [NewCall(op, pairs, IF op = "similarity" THEN "lch" ELSE "",
                              IF public THEN "open" ELSE "prepare")
                         EXCEPT !.forcerun = forcerun]]
    /\ tasks = <<>>
    /\ task = NoCalls
    /\ sim = NoCalls
    /\ rc = [pc |-> "none", use_cuis |-> FALSE, collected |-> {},
             final |-> Returns(EmptyTable)]
    /\ results = NoCalls
    /\ log = {}
    /\ env = [launches |-> BOOLEAN, statuses |-> {0, 1}]

NextOps ==
    \/ Open(TheCall)
    \/ Write(TheCall)
    \/ Launch(TheCall)
    \/ NextPair(TheCall)
    \/ Run(TheCall)
    \/ Parse(TheCall)

SpecOps == InitOps /\ [][NextOps]_vars

(***************************************************************************)
(* Properties of one operation (SpecOps).                                  *)
(***************************************************************************)
Started(call) == call.spawned > 0 \/ call.pc \in {"run", "parse", "done"}

\* C3 as stated: with exactly one connection key absent or empty, the
\* operation never launches a child, and when it ends it has failed with the
\* configuration error (ValueError) naming that key.
C3_ConfigErrorNamesKey ==
    \A k \in KeySet :
        BadKeys(mysql_info) = {k} =>
            /\ ~Started(inv[TheCall])
            /\ Finished(inv[TheCall]) =>
                  inv[TheCall].res.err = Raise("ValueError", k)

\* C3 amended: with a connection key absent or empty no child is launched
\* and the operation fails; the error is the ValueError naming the first such
\* key, unless the operation is one that looks for its input file first and
\* that file does not exist, when it is the FileNotFoundError of that file.
C3_ConfigErrorAfterInputFile ==
    BadKeys(mysql_info) # {} =>
        /\ ~Started(inv[TheCall])
        /\ Finished(inv[TheCall]) =>
              /\ inv[TheCall].pc = "failed"
              /\ IF ChecksInputFile(inv[TheCall].op) /\ TempFile \notin disk
                 THEN inv[TheCall].res.err = Raise("FileNotFoundError", TempFile)
                 ELSE /\ inv[TheCall].res.err.type = "ValueError"
                      /\ inv[TheCall].res.err.what \in BadKeys(mysql_info)
                      /\ \A i \in 1..Len(RequiredKeys) :
                            RequiredKeys[i] = inv[TheCall].res.err.what =>
                                \A j \in 1..(i - 1) :
                                    RequiredKeys[j] \notin BadKeys(mysql_info)

\* C3 witness: an operation has failed with the ValueError naming the one
\* key (socket, here with an empty value) that the configuration lacks.
C3_Witness ==
    /\ BadKeys(mysql_info) = {"socket"}
    /\ "socket" \in DOMAIN mysql_info
    /\ inv[TheCall].pc = "failed"
    /\ inv[TheCall].res.err = Raise("ValueError", "socket")
    /\ inv[TheCall].spawned = 0

ExecutablesFound(op) == PerlBin \in disk /\ ScriptOf(op) \in disk

Returned == rc.pc = "done"

FailedTasks == {i \in DOMAIN task : FutureDone(i) /\ FutureResult(i).err # NoError}
SucceededTasks == {i \in DOMAIN task : FutureDone(i) /\ FutureResult(i).err = NoError}

\* the results mapping holds exactly the tables of the tasks given
HoldsResultsOf(done) ==
    /\ DOMAIN results = {tasks[i].function : i \in done}
    /\ \A i \in done : results[tasks[i].function] = FutureResult(i).table

Diagnosed(i) ==
    \E l \in log : l.by = "run_concurrently" /\ l.name = tasks[i].function

\* C1: when run_concurrently has ended and a task has raised, every task
\* has run to its end, the results handed to merge_results are those of the
\* tasks that returned (the failing task's name is no key), a diagnostic
\* names the failing task, and run_concurrently has returned the merged
\* table of the sibling results instead of raising.
C1_PartialFailureTolerated ==
    (Returned /\ FailedTasks # {}) =>
        /\ \A i \in DOMAIN tasks : FutureDone(i)
        /\ HoldsResultsOf(SucceededTasks)
        /\ \A i \in FailedTasks : Diagnosed(i)
        /\ rc.final.err = NoError

\* the calls that read the pair file: the external tool reads it (--infile)
\* for similarity and the least common subsumer
ReadsFile(call) == call.op \in {"similarity", "lcs"}

\* C2: whenever the pair file of an invocation has been read, by the tool
\* or by the wrapper looking at its first line again, what was read is the
\* complete pair list that this invocation wrote.
C2_OwnCompleteInput ==
    \A id \in DOMAIN inv :
        ReadsFile(inv[id]) =>
            /\ inv[id].pc \in {"parse", "done"} \/ (inv[id].pc = "failed" /\ inv[id].spawned > 0)
                  => inv[id].fed = WrittenLines(inv[id].arg)
            /\ (inv[id].op = "similarity" /\ Finished(inv[id]) /\ inv[id].spawned > 0)
                  => inv[id].first_line = FirstLine(WrittenLines(inv[id].arg))

\* C5: while merge_results runs, and after it, every dispatched task has
\* finished or failed and no call is under way, and the results mapping is
\* the complete set of the succeeded results; likewise
\* combine_similarity_results runs only when every measure of its similarity
\* call has finished or failed and every succeeded one has been taken.
C5_AggregationAfterAllTasks ==
    /\ rc.pc \in {"merge", "done"} =>
          /\ \A i \in DOMAIN tasks : i \in DOMAIN task /\ FutureDone(i)
          /\ \A id \in DOMAIN inv : Finished(inv[id])
          /\ HoldsResultsOf(SucceededTasks)
    /\ \A i \in DOMAIN sim :
          sim[i].pc \in {"combine", "done"} =>
              /\ \A id \in MeasureCalls(i) : Finished(inv[id])
              /\ Len(sim[i].all_results)
                    = Cardinality({id \in MeasureCalls(i) : inv[id].res.err = NoError})
              /\ \A id \in MeasureCalls(i) :
                    inv[id].res.err = NoError =>
                        \E n \in 1..Len(sim[i].all_results) :
                            sim[i].all_results[n] = <<inv[id].measure, inv[id].res.table>>

\* C5 witness: merge_results is about to run on a batch of three tasks of
\* which one has failed and one has returned a table with rows.
C5_Witness ==
    /\ rc.pc = "merge"
    /\ Len(tasks) = 3
    /\ FailedTasks # {}
    /\ \E name \in DOMAIN results : results[name].rows # <<>>
    /\ \E i \in DOMAIN sim : sim[i].pc = "done" /\ Len(sim[i].all_results) = 2

\* C6: a shortest_path or lcs task runs on the caller's pair list: the
\* operation's cui_pairs is the first element of the task's argument tuple,
\* and the lines it has written to the pair file are the caller's pairs in
\* order (so no element of it fails to unpack into a pair).
C6_OperationGetsPairList ==
    \A id \in DOMAIN inv :
        inv[id].op \in {"shortest_path", "lcs"} =>
            /\ inv[id].arg = tasks[id[1]].arguments.v[1]
            /\ inv[id].res.err # Raise("ValueError", "unpack")

\* the rows of a table appear in another, cell by cell on the given columns
RowsWithin(part, whole, cols) ==
    \A n \in 1..Len(part.rows) :
        \E m \in 1..Len(whole.rows) :
            \A c \in cols : c \in whole.cols /\ whole.rows[m][c] = part.rows[n][c]

\* C7: when run_concurrently has ended on a batch in which a measure or an
\* operation failed while at least one operation returned, it has returned
\* (not raised) a table that holds the records of every returned table.
C7_PartialResultsReturned ==
    (Returned /\ log # {} /\ DOMAIN results # {}) =>
        /\ rc.final.err = NoError
        /\ \A name \in DOMAIN results :
              RowsWithin(results[name], rc.final.table,
                         results[name].cols \ NonMergeCols(rc.use_cuis))

(***************************************************************************)
(* Properties of the parsers of one operation (SpecOps).                   *)
(***************************************************************************)
\* the rows an operation has parsed so far
ParsedRows(call) == IF call.pc = "done" THEN call.res.table.rows ELSE call.rows

\* the parser's decision: is_cui on both elements
InputIsCui(a, b) == is_cui(a) /\ is_cui(b)

\* C8: on a pair list of one kind, the kind the dispatcher would detect on
\* the first pair (which selects the merge columns) is the kind each parser
\* decides on (similarity on the first line of the file, the shortest path
\* on each pair), and every parsed record has a value other than None in
\* the merge columns of that kind.
C8_ConsistentMergeKeys ==
    LET call == inv[TheCall]
        use_cuis == detect_cui_or_term(call.arg)
        parts == Split(call.first_line)
    IN  /\ (call.op = "similarity" /\ call.pc = "done") =>
              InputIsCui(parts[1], parts[2]) = use_cuis
        /\ (call.op = "shortest_path" /\ Started(call)) =>
              \A k \in 1..call.k :
                  InputIsCui(call.arg.v[k].v[1].v, call.arg.v[k].v[2].v) = use_cuis
        /\ \A n \in 1..Len(ParsedRows(call)) :
              \A c \in MergeOn(use_cuis) : ParsedRows(call)[n][c] # PyNone

\* a record of the shortest path whose source and destination are one concept
SameConcept(row) ==
    IF row.CUI_1 # PyNone /\ row.CUI_2 # PyNone THEN row.CUI_1 = row.CUI_2
    ELSE /\ Known(row.Term_1.v) /\ Known(row.Term_2.v)
         /\ ConceptOf(row.Term_1.v) = ConceptOf(row.Term_2.v)

ConceptId(row) ==
    IF row.CUI_1 # PyNone THEN row.CUI_1 ELSE PyStr(ConceptOf(row.Term_1.v).cui)

\* C10: every shortest-path record of a pair whose source and destination
\* are one concept has Length 0 and, as Path, that concept's identifier.
C10_SameConceptZeroLength ==
    inv[TheCall].op = "shortest_path" =>
        \A n \in 1..Len(ParsedRows(inv[TheCall])) :
            SameConcept(ParsedRows(inv[TheCall])[n]) =>
                /\ ParsedRows(inv[TheCall])[n].Length = PyInt(<<"0">>)
                /\ ParsedRows(inv[TheCall])[n].Path = ConceptId(ParsedRows(inv[TheCall])[n])

(***************************************************************************)
(* SpecMerge: merge_results called on a results mapping that holds one     *)
(* table of a single operation under two names, in either mode.  The       *)
(* tables are those the parsers build from the outputs of the tool on a    *)
(* pair list.                                                              *)
(***************************************************************************)
\* the pair lists: up to MaxMergePairs pairs, and one that repeats a pair
MergePairLists ==
    {PySeq(Prefix(CuiPairSeq, n)) : n \in 1..MaxMergePairs}
        \cup {PySeq(Prefix(TermPairSeq, n)) : n \in 1..MaxMergePairs}
        \cup {PySeq(<<Pair(C1, C2), Pair(C1, C2)>>)}

RECURSIVE PathRowSets(_)
\* the records find_shortest_path_from_file may collect over a pair list
PathRowSets(ps) ==
    IF ps = <<>> THEN {<<>>}
    ELSE LET a == ps[1].v[1].v
             b == ps[1].v[2].v
         IN  { Flatten([i \in 1..Len(out) |->
                          ShortestPathRecords(out[i], a, b, InputIsCui(a, b))]) \o rest :
                 out \in PathToolOutputs(a, b), rest \in PathRowSets(Tail(ps)) }

\* the table similarity returns for one measure
SimilarityTable(pairs, out) ==
    LET parts == Split(FirstLine(WrittenLines(pairs)))
        df == DataFrame(Flatten([i \in 1..Len(out) |->
                  SimilarityRecords(out[i], InputIsCui(parts[1], parts[2]), "lch")]))
    IN  combine_similarity_results(<< <<"lch", df>> >>).table

LcsTable(out) == DataFrame(Flatten([i \in 1..Len(out) |-> LcsRecords(out[i])]))

OperationTables ==
    UNION { {DataFrame(rows) : rows \in PathRowSets(pairs.v)}
              \cup {SimilarityTable(pairs, out) :
                       out \in FileToolOutputs("similarity", WrittenLines(pairs))}
              \cup {LcsTable(out) : out \in FileToolOutputs("lcs", WrittenLines(pairs))}
            : pairs \in MergePairLists }

TwoNames == {names \in SUBSET {MergeOrder[i] : i \in 1..Len(MergeOrder)} :
                Cardinality(names) = 2}

InitMerge ==
    /\ mysql_info = ValidInfo
    /\ disk = Installed
    /\ file = <<>>
    /\ inv = NoCalls
    /\ tasks = <<>>
    /\ task = NoCalls
    /\ sim = NoCalls
    /\ \E use_cuis \in BOOLEAN :
         rc = [pc |-> "merge", use_cuis |-> use_cuis, collected |-> {},
               final |-> Returns(EmptyTable)]
    /\ \E names \in TwoNames, T \in OperationTables : results = [n \in names |-> T]
    /\ log = {}
    /\ env = [launches |-> {TRUE}, statuses |-> {0}]

NextMerge == Merge

SpecMerge == InitMerge /\ [][NextMerge]_vars

\* two row sequences hold the same rows, each as often
SameRows(a, b) ==
    /\ Len(a) = Len(b)
    /\ \A n \in 1..Len(a) :
          Cardinality({m \in 1..Len(a) : a[m] = a[n]})
              = Cardinality({m \in 1..Len(b) : b[m] = a[n]})

\* C9: merge_results of a mapping that holds one table T under two names
\* returns a table equal to T: the columns of T and the rows of T, none
\* twice.
C9_MergeIdempotent ==
    Returned =>
        \A name \in DOMAIN results :
            /\ rc.final.err = NoError
            /\ rc.final.table.cols = results[name].cols
            /\ SameRows(rc.final.table.rows, results[name].rows)

(***************************************************************************)
(* Properties of the similarity parser (SpecOps).                          *)
(***************************************************************************)
\* an output line score<>ID1(Term1)<>ID2(Term2) (identifier mode) or
\* score<>Term1(ID1)<>Term2(ID2) (term mode)
WellFormedSimLine(line, cui_mode) ==
    /\ line.kind = "sim"
    /\ IF cui_mode
       THEN /\ MatchesCuiGroup(line.a) /\ line.ap # <<>>
            /\ MatchesCuiGroup(line.b) /\ line.bp # <<>>
       ELSE /\ line.a # <<>> /\ MatchesCuiGroup(line.ap)
            /\ line.b # <<>> /\ MatchesCuiGroup(line.bp)

\* the record the line stands for
SimRecordOf(line, cui_mode, m) ==
    LET id1 == IF cui_mode THEN line.a ELSE line.ap
        t1 == IF cui_mode THEN line.ap ELSE line.a
        id2 == IF cui_mode THEN line.b ELSE line.bp
        t2 == IF cui_mode THEN line.bp ELSE line.b
    IN  [c \in {"Term_1", "CUI_1", "Term_2", "CUI_2", m} |->
            IF c = "Term_1" THEN PyStr(t1)
            ELSE IF c = "CUI_1" THEN PyStr(id1)
            ELSE IF c = "Term_2" THEN PyStr(t2)
            ELSE IF c = "CUI_2" THEN PyStr(id2)
            ELSE PyFloat(<<"0.8">>)]

PathOutputParsed(call) ==
    /\ call.op = "shortest_path"
    /\ call.out # <<>>
    /\ call.pc \in {"spawn", "done"}

RECURSIVE RenderedPath(_)
\* the nodes n1 .. nk, each as `ID (Term)`, with ` => ` between two nodes
RenderedPath(nodes) ==
    IF nodes = <<>> THEN <<>>
    ELSE nodes[1][1] \o <<" (">> \o nodes[1][2] \o <<")">>
            \o (IF Len(nodes) = 1 THEN <<>> ELSE <<" => ">> \o RenderedPath(Tail(nodes)))

\* C12: the record parsed from a well-formed path line
\* `The shortest path (length: N) between T1 (ID1) and T2 (ID2): => n1 ...`
\* has the integer N as Length and, as Path, the nodes in their order, each
\* rendered `ID (Term)`, joined by ` => `.
C12_PathRecordIntegerLength ==
    LET call == inv[TheCall]
        line == call.out[1]
        row == ParsedRows(call)[Len(ParsedRows(call))]
    IN  (PathOutputParsed(call) /\ line.kind = "path") =>
            /\ row.Length = PyInt(line.length)
            /\ row.Path = PyStr(RenderedPath(line.nodes))

(***************************************************************************)
(* Properties of similarity's fan-out (Spec).                              *)
(***************************************************************************)
\* a measure whose output held no line the pattern matches: its call
\* returned pd.DataFrame([])
ParseMiss(id) == inv[id].pc = "done" /\ inv[id].res.table = EmptyTable

\* the per-measure results that hold records
WithRecords(all_results) == SelectSeq(all_results, LAMBDA r : r[2] # EmptyTable)

\* C13: when similarity has ended and the output of one of its measures
\* matched nothing, similarity has not raised and has returned the combined
\* table of the other measures, in whatever order the measures completed.
C13_ParseMissIsNoError ==
    \A i \in DOMAIN sim :
        (sim[i].pc = "done" /\ \E id \in MeasureCalls(i) : ParseMiss(id)) =>
            /\ task[i].res.err = NoError
            /\ task[i].res = combine_similarity_results(WithRecords(sim[i].all_results))

(***************************************************************************)
(* Properties of the child process of one operation (SpecOps).             *)
(***************************************************************************)
\* the wrapped error of the except clauses
IsWrappedError(e) == e.type = "RuntimeError"

\* C14: a child that has exited with a status other than 0 makes the
\* operation fail with the wrapped error: the operation neither returns a
\* table nor goes on to the next pair; and an operation whose launch failed
\* has failed with the wrapped error.
C14_AbnormalExitFails ==
    LET call == inv[TheCall]
    IN  /\ call.exit # 0 =>
              /\ call.pc \in {"parse", "failed"}
              /\ call.pc = "failed" => IsWrappedError(call.res.err)
        /\ call.res.err.what = "OSError" =>
              call.pc = "failed" /\ IsWrappedError(call.res.err)

(***************************************************************************)
(* Properties of the command line of one operation (SpecOps).              *)
(***************************************************************************)
\* C15: the command line of a launched child holds the bare --forcerun
\* exactly when the caller's forcerun option of the operation is true.
C15_ForcerunAsRequested ==
    Started(inv[TheCall]) =>
        ("--forcerun" \in inv[TheCall].argv <=> inv[TheCall].forcerun)

(***************************************************************************)
(* SpecCombine: similarity's last step, combine_similarity_results, on the *)
(* per-measure results of one pair list: up to MaxCombined results, each   *)
(* the table similarity_from_file builds from an output of the tool for a  *)
(* measure, the same measure possibly more than once.                      *)
(***************************************************************************)
CombinedMeasures == {"lch", "wup"}

\* the table similarity_from_file returns for a measure
MeasureTable(pairs, out, measure) ==
    LET parts == Split(FirstLine(WrittenLines(pairs)))
    IN  DataFrame(Flatten([i \in 1..Len(out) |->
            SimilarityRecords(out[i], InputIsCui(parts[1], parts[2]), measure)]))

\* the lists all_results may be for a pair list
AllResultsOf(pairs) ==
    UNION { { [n \in 1..len |-> <<ms[n], MeasureTable(pairs, outs[n], ms[n])>>] :
                ms \in [1..len -> CombinedMeasures],
                outs \in [1..len -> FileToolOutputs("similarity", WrittenLines(pairs))] }
            : len \in 1..MaxCombined }

InitCombine ==
    /\ mysql_info = ValidInfo
    /\ disk = Installed
    /\ file = <<>>
    /\ inv = NoCalls
    /\ \E pairs \in MergePairLists : \E all_results \in AllResultsOf(pairs) :
         /\ tasks = <<TaskOf("similarity", pairs,
                             PySeq([n \in 1..Len(all_results) |->
                                      PyStr(<<all_results[n][1]>>)]))>>
         /\ sim = <<[pc |-> "combine", all_results |-> all_results,
                     collected |-> 1..Len(all_results)]>>
    /\ task = <<[pc |-> "running", res |-> Returns(EmptyTable)]>>
    /\ rc = [pc |-> "none", use_cuis |-> FALSE, collected |-> {},
             final |-> Returns(EmptyTable)]
    /\ results = NoCalls
    /\ log = {}
    /\ env = [launches |-> {TRUE}, statuses |-> {0}]

NextCombine == SimCombine(1)

SpecCombine == InitCombine /\ [][NextCombine]_vars

\* the results whose measure has no earlier result in the list
FirstOccurrences(all_results) ==
    LET first == {n \in 1..Len(all_results) :
                    \A m \in 1..(n - 1) : all_results[m][1] # all_results[n][1]}
        Pick(k) == CHOOSE n \in first : Cardinality({m \in first : m < n}) = k - 1
    IN  [k \in 1..Cardinality(first) |-> all_results[Pick(k)]]

\* a measure comes again when the accumulated table has its column
RepeatsMeasure(all_results) ==
    \E n, m \in 1..Len(all_results) :
        n < m /\ all_results[n][1] = all_results[m][1] /\ all_results[n][2] # EmptyTable

\* C16: when the per-measure results name a measure whose column the
\* accumulated table already has, combine_similarity_results does not raise
\* and returns what it returns for the first occurrences alone: one column
\* for that measure, with the rows of its first occurrence.
C16_RepeatedMeasureSkipped ==
    (sim[1].pc = "done" /\ RepeatsMeasure(sim[1].all_results)) =>
        /\ task[1].res.err = NoError
        /\ task[1].res = combine_similarity_results(FirstOccurrences(sim[1].all_results))

(***************************************************************************)
(* SpecLive: run_concurrently with the scheduling of its threads and its   *)
(* children.  The pool threads and the caller's thread are scheduled by    *)
(* the operating system, so a step of the program that stays possible is   *)
(* taken; the pools have more workers than a batch has tasks or measures.  *)
(* Every child process is taken to end (ChildExit is fair): there is no    *)
(* timeout, communicate() returns when the child has exited.               *)
(***************************************************************************)
ProgramStep ==
    \/ Dispatch
    \/ \E i \in DOMAIN tasks : RunTask(i)
    \/ \E id \in DOMAIN inv : Open(id)
    \/ \E id \in DOMAIN inv : Write(id)
    \/ \E id \in DOMAIN inv : Parse(id)
    \/ \E id \in DOMAIN inv : SimCollect(id)
    \/ \E i \in DOMAIN tasks : SimCombine(i)
    \/ \E i \in DOMAIN tasks : Collect(i)
    \/ Merge

ChildExit == \E id \in DOMAIN inv : Run(id)

\* batches of one pair
InitLive == Init /\ Len(tasks[1].arguments.v[1].v) <= MaxLivePairs

NextLive == ProgramStep \/ ChildExit

SpecLive == InitLive /\ [][NextLive]_vars /\ WF_vars(ProgramStep) /\ WF_vars(ChildExit)

ChildRunning == \E id \in DOMAIN inv : inv[id].pc = "run"

\* C17: run_concurrently has returned or raised only when no child is
\* running and every invocation has ended, and, every child ending, it
\* does return or raise: there is no deadlock of the pools, similarity's
\* nested pool included.
C17_ReturnsWhenChildrenEnd ==
    /\ [](Returned => (~ChildRunning /\ \A id \in DOMAIN inv : Finished(inv[id])))
    /\ <>Returned

\* C17 witness: run_concurrently has returned on a batch of three tasks in
\* which both measures of similarity had a child that ran and ended.
C17_Witness ==
    /\ Returned
    /\ Len(tasks) = 3
    /\ \E i \in DOMAIN sim :
          /\ Cardinality(MeasureCalls(i)) = 2
          /\ \A id \in MeasureCalls(i) : inv[id].spawned = 1 /\ Finished(inv[id])

(***************************************************************************)
(* Properties of the completion order (SpecCombine): all_results is in the *)
(* order in which the measures completed.                                  *)
(***************************************************************************)
\* the same results in another order of completion
Reordered(all_results) ==
    { [n \in 1..Len(all_results) |-> all_results[f[n]]] :
        f \in Permutations(1..Len(all_results)) }

\* what a caller sees of an outcome: whether it raised, and the columns and
\* the rows of the table
SameOutcome(a, b) ==
    /\ (a.err = NoError) = (b.err = NoError)
    /\ a.table.cols = b.table.cols
    /\ SameRows(a.table.rows, b.table.rows)

DistinctMeasures(all_results) ==
    \A n, m \in 1..Len(all_results) : all_results[n][1] = all_results[m][1] => n = m

\* C18: for fixed per-measure outputs of distinct measures, similarity ends
\* the same way (returns or raises, with the same columns and rows) in
\* whatever order the measures completed.
C18_CompletionOrderIrrelevant ==
    (sim[1].pc = "done" /\ DistinctMeasures(sim[1].all_results)) =>
        \A other \in Reordered(sim[1].all_results) :
            SameOutcome(task[1].res, combine_similarity_results(other))

====
